---- MODULE Spec2Model ----
(***************************************************************************)
(* Model of raphtory/src/graphgen/erdos_renyl.rs: the Erdos-Renyi          *)
(* generator erdos_renyl(graph, n_nodes, p, seed) run against a graph that *)
(* may already hold nodes and edges.                                       *)
(*                                                                         *)
(* Probabilities and uniform draws are counted in units of 1/UnitSteps:    *)
(* a draw is one of 0 .. UnitSteps-1 (the half-open interval [0,1)) and p  *)
(* ranges over -1 .. UnitSteps+1 (below 0, inside [0,1], above 1).         *)
(* An Option value is a sequence of length at most one.                    *)
(***************************************************************************)
EXTENDS Integers, Sequences, FiniteSets

\* ---- bounds of the model ----
MaxNodes == 2
MaxPre == 2
MaxT0 == 1
MaxSeed == 1
UnitSteps == 2

VARIABLES
    n_nodes, p, seed,              \* arguments of the call
    g_nodes, g_edges, g_time,      \* the graph: ids in iteration order, edges, latest time
    asked, refused,                \* the storage layer's verdicts on the calls made so far
    nodes0, edges0, time0,         \* the graph as it was before the call
    pc, rng, latest_time, max_id,  \* locals of erdos_renyl
    k, all_ids, i, j,
    calls, draws,                  \* history: insertion attempts and draws of this call
    run, first, firstEdges         \* the caller: which call this is, and what the first one did

vars == <<n_nodes, p, seed, g_nodes, g_edges, g_time, asked, refused,
          nodes0, edges0, time0, pc, rng, latest_time, max_id, k, all_ids,
          i, j, calls, draws, run, first, firstEdges>>

None == <<>>
Some(x) == <<x>>

Range(s) == {s[x] : x \in 1..Len(s)}

MaxOfSet(S) == CHOOSE m \in S : \A x \in S : x <= m

\* ids.iter().max().cloned()
MaxOf(ids) == IF Len(ids) = 0 THEN None ELSE Some(MaxOfSet(Range(ids)))

\* super::next_id: the successor of the given maximum; with no maximum the
\* allocation starts from the base 0.
next_id(max_gid) == (IF max_gid = None THEN 0 ELSE max_gid[1]) + 1

\* graph.latest_time().unwrap_or(0)
StartTimeZero(t) == 0
StartTime(t) == IF t = None THEN 0 ELSE t[1]

\* let mut max_id = next_id(graph, ids.iter().max().cloned());
FirstMaxIdNoMax(ids) == next_id(None)
FirstMaxId(ids) == next_id(MaxOf(ids))

\* max_id = next_id(graph, Some(max_id));
LoopIdStale(m) == m
LoopId(m) == next_id(Some(m))

\* latest_time += 1;
Tick(t) == t + 1

\* StdRng: a deterministic generator; its whole state is one number.
SeedSpace == 0..MaxSeed
RngNext(x) == (5 * x + 1) % 8
RngOut(x) == (x * UnitSteps) \div 8

\* StdRng::from_seed(seed_value) or StdRng::from_entropy(): the states the
\* generator may start in.
SeedRngEntropy(s) == SeedSpace
SeedRng(s) == IF s # None THEN {s[1]} ELSE SeedSpace

\* id != other_id
DistinctAlways(a, b) == TRUE
Distinct(a, b) == a # b

\* rng.gen::<f64>() < p
BernoulliFlipped(x, prob) == prob < x
BernoulliInclusive(x, prob) == x <= prob
Bernoulli(x, prob) == x < prob

\* .map_err(|err| error!("{:?}", err)).ok(): the loop goes on either way.
NodeErrPolicyFatal(ok) == IF ok THEN "nodes" ELSE "aborted"
NodeErrPolicy(ok) == "nodes"

\* .expect("Not able to add edge"): a failure panics.
EdgeErrPolicyLenient(ok) == "edges"
EdgeErrPolicy(ok) == IF ok THEN "edges" ELSE "aborted"

\* The storage layer answers a call the same way every time it is made.
Verdicts(c) == IF c \in asked THEN {c \notin refused} ELSE BOOLEAN

LaterTime(t, gt) == IF gt = None \/ gt[1] < t THEN Some(t) ELSE gt

\* ---- graphs the call may start from ----
Rot(n, r) == [x \in 1..n |-> ((x + r - 1) % n) + 1]
PreNodes == {<<>>} \cup {Rot(n, r) : n \in 1..MaxPre, r \in 0..(MaxPre - 1)}
Chain(ids) == {<<ids[x], ids[x + 1]>> : x \in 1..(Len(ids) - 1)}
PValues == (0 - 1)..(UnitSteps + 1)

Init ==
    /\ n_nodes \in 0..MaxNodes
    /\ p \in PValues
    /\ seed \in {None} \cup {Some(s) : s \in SeedSpace}
    /\ g_nodes \in PreNodes
    /\ g_edges \in {{}, Chain(g_nodes)}
    /\ g_time \in IF g_nodes = <<>> THEN {None} ELSE {Some(t) : t \in 0..MaxT0}
    /\ asked = {}
    /\ refused = {}
    /\ nodes0 = g_nodes
    /\ edges0 = g_edges
    /\ time0 = g_time
    /\ pc = "start"
    /\ rng = 0
    /\ latest_time = 0
    /\ max_id = 0
    /\ k = 0
    /\ all_ids = <<>>
    /\ i = 1
    /\ j = 1
    /\ calls = <<>>
    /\ draws = 0
    /\ run = 1
    /\ first = <<>>
    /\ firstEdges = {}

\* lines 45-53: seed the generator, read the latest time and the maximum id.
Begin ==
    /\ pc = "start"
    /\ \E s \in SeedRng(seed) : rng' = s
    /\ latest_time' = StartTime(g_time)
    /\ max_id' = FirstMaxId(g_nodes)
    /\ k' = 0
    /\ pc' = "nodes"
    /\ UNCHANGED <<n_nodes, p, seed, g_nodes, g_edges, g_time, asked, refused,
                   nodes0, edges0, time0, all_ids, i, j, calls, draws,
                   run, first, firstEdges>>

\* lines 54-61: one iteration of the node loop.
AddNode ==
    /\ pc = "nodes"
    /\ k < n_nodes
    /\ LET id == LoopId(max_id)
           t == Tick(latest_time)
           c == <<"node", t, id, id>>
       IN  \E ok \in Verdicts(c) :
            /\ max_id' = id
            /\ latest_time' = t
            /\ g_nodes' = IF ok /\ id \notin Range(g_nodes)
                          THEN Append(g_nodes, id) ELSE g_nodes
            /\ g_time' = IF ok THEN LaterTime(t, g_time) ELSE g_time
            /\ asked' = asked \cup {c}
            /\ refused' = IF ok THEN refused ELSE refused \cup {c}
            /\ calls' = Append(calls, [kind |-> "node", t |-> t, src |-> id,
                                       dst |-> id, ok |-> ok, draw |-> draws])
            /\ pc' = NodeErrPolicy(ok)
    /\ k' = k + 1
    /\ UNCHANGED <<n_nodes, p, seed, g_edges, nodes0, edges0, time0, rng,
                   all_ids, i, j, draws, run, first, firstEdges>>

\* line 62: the node loop is over; read the ids again.
ReadIds ==
    /\ pc = "nodes"
    /\ k >= n_nodes
    /\ all_ids' = g_nodes
    /\ i' = 1
    /\ j' = 1
    /\ pc' = "edges"
    /\ UNCHANGED <<n_nodes, p, seed, g_nodes, g_edges, g_time, asked, refused,
                   nodes0, edges0, time0, rng, latest_time, max_id, k, calls,
                   draws, run, first, firstEdges>>

\* lines 63-71: one iteration of the inner loop, on the pair (all_ids[i], all_ids[j]).
EdgeIter ==
    /\ pc = "edges"
    /\ i <= Len(all_ids)
    /\ LET id == all_ids[i]
           other_id == all_ids[j]
           last == (j >= Len(all_ids))
           x == RngOut(RngNext(rng))
           t == Tick(latest_time)
           c == <<"edge", t, id, other_id>>
       IN  IF Distinct(id, other_id)
           THEN /\ rng' = RngNext(rng)
                /\ draws' = draws + 1
                /\ IF Bernoulli(x, p)
                   THEN \E ok \in Verdicts(c) :
                         /\ latest_time' = t
                         /\ g_edges' = IF ok THEN g_edges \cup {<<id, other_id>>}
                                       ELSE g_edges
                         /\ g_time' = IF ok THEN LaterTime(t, g_time) ELSE g_time
                         /\ asked' = asked \cup {c}
                         /\ refused' = IF ok THEN refused ELSE refused \cup {c}
                         /\ calls' = Append(calls,
                                [kind |-> "edge", t |-> t, src |-> id,
                                 dst |-> other_id, ok |-> ok, draw |-> draws + 1])
                         /\ pc' = EdgeErrPolicy(ok)
                         /\ j' = IF last THEN 1 ELSE j + 1
                         /\ i' = IF last THEN i + 1 ELSE i
                   ELSE /\ j' = IF last THEN 1 ELSE j + 1
                        /\ i' = IF last THEN i + 1 ELSE i
                        /\ UNCHANGED <<latest_time, g_edges, g_time, asked,
                                       refused, calls, pc>>
           ELSE /\ j' = IF last THEN 1 ELSE j + 1
                /\ i' = IF last THEN i + 1 ELSE i
                /\ UNCHANGED <<rng, draws, latest_time, g_edges, g_time, asked,
                               refused, calls, pc>>
    /\ UNCHANGED <<n_nodes, p, seed, g_nodes, nodes0, edges0, time0, max_id, k,
                   all_ids, run, first, firstEdges>>

\* line 73: the outer loop is over; the call returns.
Return ==
    /\ pc = "edges"
    /\ i > Len(all_ids)
    /\ pc' = "done"
    /\ UNCHANGED <<n_nodes, p, seed, g_nodes, g_edges, g_time, asked, refused,
                   nodes0, edges0, time0, rng, latest_time, max_id, k, all_ids,
                   i, j, calls, draws, run, first, firstEdges>>

\* The caller repeats the call with the same arguments on a graph in the
\* state the first call started from.
Rerun ==
    /\ pc \in {"done", "aborted"}
    /\ run = 1
    /\ run' = 2
    /\ first' = calls
    /\ firstEdges' = g_edges
    /\ g_nodes' = nodes0
    /\ g_edges' = edges0
    /\ g_time' = time0
    /\ pc' = "start"
    /\ rng' = 0
    /\ latest_time' = 0
    /\ max_id' = 0
    /\ k' = 0
    /\ all_ids' = <<>>
    /\ i' = 1
    /\ j' = 1
    /\ calls' = <<>>
    /\ draws' = 0
    /\ UNCHANGED <<n_nodes, p, seed, asked, refused, nodes0, edges0, time0>>

\* One call of erdos_renyl.
Next == Begin \/ AddNode \/ ReadIds \/ EdgeIter \/ Return

Spec == Init /\ [][Next]_vars

\* Two calls in a row, the second on a graph put back in its starting state.
InitTwice ==
    /\ Init
    /\ p \in 0..UnitSteps
    /\ g_time \in {None, Some(MaxT0)}

NextTwice == Begin \/ AddNode \/ ReadIds \/ EdgeIter \/ Return \/ Rerun

SpecTwice == InitTwice /\ [][NextTwice]_vars

\* ---- what the history says about the call ----
IsNode(c) == c.kind = "node"
IsEdge(c) == c.kind = "edge"
NodeCalls(log) == SelectSeq(log, IsNode)
EdgeCalls(log) == SelectSeq(log, IsEdge)
IsOk(c) == c.ok
OkNodeCalls == SelectSeq(NodeCalls(calls), IsOk)
FailedNodeCalls == {x \in 1..Len(calls) : IsNode(calls[x]) /\ ~calls[x].ok}
FailedEdgeCalls == {x \in 1..Len(calls) : IsEdge(calls[x]) /\ ~calls[x].ok}
OkEdges == {<<calls[x].src, calls[x].dst>> : x \in {y \in 1..Len(calls) : IsEdge(calls[y]) /\ calls[y].ok}}
OkIds == [x \in 1..Len(OkNodeCalls) |-> OkNodeCalls[x].src]
T0 == IF time0 = <<>> THEN 0 ELSE time0[1]
M0 == IF nodes0 = <<>> THEN 0 ELSE MaxOfSet(Range(nodes0))
PairsOf(ids) == {<<a, b>> \in Range(ids) \X Range(ids) : a # b}

\* C1 as stated: after the call returns, the node count is the count before
\* the call plus n_nodes.
C1_Original ==
    pc = "done" => Len(g_nodes) = Len(nodes0) + n_nodes

\* C1, amended: after the call returns, the node count is the count before the
\* call plus the number of add_node calls that succeeded; it is the count
\* before plus n_nodes when none failed, and n_nodes when moreover the graph
\* was empty.
C1_NodeCount ==
    pc = "done" =>
        /\ Len(g_nodes) = Len(nodes0) + Len(OkNodeCalls)
        /\ Cardinality(Range(g_nodes)) = Len(g_nodes)
        /\ FailedNodeCalls = {} => Len(g_nodes) = Len(nodes0) + n_nodes
        /\ (FailedNodeCalls = {} /\ nodes0 = <<>>) => Len(g_nodes) = n_nodes

C1_Witness ==
    /\ pc = "done"
    /\ n_nodes = MaxNodes
    /\ nodes0 # <<>>
    /\ Len(OkNodeCalls) = 1

\* C2 as stated: with p >= 1 every ordered pair of distinct ids read after the
\* node phase gets an edge, no self edge is inserted, and from an empty graph
\* the edge count is n_nodes * (n_nodes - 1).
C2_Original ==
    (pc = "done" /\ p >= UnitSteps) =>
        /\ PairsOf(all_ids) \subseteq OkEdges
        /\ \A x \in 1..Len(calls) : IsEdge(calls[x]) => calls[x].src # calls[x].dst
        /\ nodes0 = <<>> => Cardinality(g_edges) = n_nodes * (n_nodes - 1)

\* C2, amended: with p >= 1, when the call returns it has inserted an edge for
\* exactly the ordered pairs of distinct ids read after the node phase and no
\* self edge; from an empty graph the edge count is k * (k - 1) with k the
\* number of ids read, which is n_nodes when every add_node call succeeded.
C2_FullProbability ==
    (pc = "done" /\ p >= UnitSteps) =>
        /\ all_ids = g_nodes
        /\ OkEdges = PairsOf(all_ids)
        /\ g_edges = edges0 \cup PairsOf(all_ids)
        /\ \A x \in 1..Len(calls) : IsEdge(calls[x]) => calls[x].src # calls[x].dst
        /\ nodes0 = <<>> =>
              Cardinality(g_edges) = Len(all_ids) * (Len(all_ids) - 1)
        /\ (nodes0 = <<>> /\ FailedNodeCalls = {}) =>
              Cardinality(g_edges) = n_nodes * (n_nodes - 1)

C2_Witness ==
    /\ pc = "done"
    /\ p >= UnitSteps
    /\ nodes0 = <<>>
    /\ n_nodes = MaxNodes
    /\ FailedNodeCalls = {}
    /\ Cardinality(g_edges) = MaxNodes * (MaxNodes - 1)

\* C3: with p <= 0 the call makes no add_edge call and the edge set stays the
\* one the graph had before the call.
C3_ZeroProbability ==
    (pc # "start" /\ p <= 0) =>
        /\ g_edges = edges0
        /\ EdgeCalls(calls) = <<>>

C3_Witness ==
    /\ pc = "done"
    /\ p = 0
    /\ edges0 # {}
    /\ n_nodes > 0
    /\ draws >= 2

\* C4: a second call with the same seed, n_nodes and p, on a graph in the state
\* the first call started from, makes the same add_edge calls in the same
\* order at the same timestamps and leaves the same edge set.
C4_Determinism ==
    (run = 2 /\ pc \in {"done", "aborted"} /\ seed # None) =>
        /\ EdgeCalls(calls) = EdgeCalls(first)
        /\ g_edges = firstEdges

C4_Witness ==
    /\ run = 2
    /\ pc = "done"
    /\ seed # None
    /\ Len(EdgeCalls(calls)) >= 2
    /\ Len(EdgeCalls(calls)) < draws
    /\ nodes0 # <<>>

\* C5: every id passed to add_node is greater than every id the graph held
\* before the call, and the ids passed are pairwise distinct.
C5_FreshIds ==
    LET nc == NodeCalls(calls)
    IN  /\ \A x \in 1..Len(nc) : \A old \in Range(nodes0) : nc[x].src > old
        /\ \A x, y \in 1..Len(nc) : x # y => nc[x].src # nc[y].src

C5_Witness ==
    /\ pc = "done"
    /\ Len(NodeCalls(calls)) = MaxNodes
    /\ Len(nodes0) >= 2
    /\ nodes0[1] > nodes0[2]

\* C6: a failed add_edge call is the last thing the call does: the call is
\* aborted, no draw and no insertion attempt follows the failing one, and the
\* graph holds what it held before the call plus what was committed before
\* the failure.
C6_EdgeFailureFatal ==
    /\ \A x \in FailedEdgeCalls :
          /\ x = Len(calls)
          /\ pc = "aborted"
          /\ draws = calls[x].draw
    /\ pc = "aborted" => FailedEdgeCalls # {}
    /\ pc = "aborted" =>
          /\ g_nodes = nodes0 \o OkIds
          /\ g_edges = edges0 \cup OkEdges

C6_Witness ==
    /\ pc = "aborted"
    /\ Len(OkNodeCalls) >= 1
    /\ OkEdges # {}
    /\ i < Len(all_ids)

\* C7: whichever add_node calls fail, once the node loop is over exactly
\* n_nodes add_node attempts were made, on pairwise distinct ids, and the edge
\* phase runs over the ids read after them: the ids from before the call
\* followed by the ids whose insertion succeeded.
C7_NodeFailureTolerated ==
    LET nc == NodeCalls(calls)
    IN  /\ pc = "nodes" => Len(nc) = k /\ k <= n_nodes
        /\ pc \in {"edges", "done", "aborted"} =>
              /\ Len(nc) = n_nodes
              /\ \A x, y \in 1..Len(nc) : x # y => nc[x].src # nc[y].src
              /\ all_ids = nodes0 \o OkIds
              /\ \A x \in 1..Len(calls) : IsNode(calls[x]) <=> x <= n_nodes

C7_Witness ==
    /\ pc = "done"
    /\ n_nodes = MaxNodes
    /\ ~calls[1].ok
    /\ calls[2].ok
    /\ draws > 0
    /\ EdgeCalls(calls) # <<>>

\* C8: the x-th insertion attempt of the call, failed node attempts included,
\* uses the timestamp t0 + x, t0 being the graph's latest time before the call
\* or 0 for an empty graph; the counter stands at t0 + (attempts so far), and
\* node attempts come before edge attempts.
C8_SharedCounter ==
    pc # "start" =>
        /\ \A x \in 1..Len(calls) : calls[x].t = T0 + x
        /\ latest_time = T0 + Len(calls)
        /\ \A x, y \in 1..Len(calls) :
              (IsNode(calls[x]) /\ IsEdge(calls[y])) => calls[x].t < calls[y].t

C8_Witness ==
    /\ pc = "done"
    /\ T0 > 0
    /\ FailedNodeCalls # {}
    /\ Len(EdgeCalls(calls)) >= 2
    /\ draws > Len(EdgeCalls(calls))

\* C9 as stated: the x-th add_node call is made on the x-th successor of the
\* maximum id the graph held before the call (of the base for an empty graph).
C9_Sequential ==
    LET nc == NodeCalls(calls)
    IN  \A x \in 1..Len(nc) : nc[x].src = M0 + x

\* C10 as stated: a call that returns has consumed n_nodes * (total - 1)
\* draws, total being the node count after the node phase.
C10_Original ==
    pc = "done" => draws = n_nodes * (Len(all_ids) - 1)

\* C10, amended: a call that returns has consumed total * (total - 1) draws,
\* total being the number of ids read after the node phase: one draw for each
\* ordered pair of distinct ids considered, whether or not it leads to an
\* edge, and none for a pair (id, id).
C10_DrawCount ==
    LET total == Len(all_ids)
    IN  /\ pc = "done" => draws = total * (total - 1)
        /\ pc = "edges" =>
              draws = (i - 1) * (total - 1)
                      + Cardinality({y \in 1..(j - 1) : i <= total /\ all_ids[y] # all_ids[i]})
        /\ pc \in {"start", "nodes"} => draws = 0

C10_Witness ==
    /\ pc = "done"
    /\ nodes0 # <<>>
    /\ n_nodes >= 1
    /\ EdgeCalls(calls) # <<>>
    /\ draws > Len(EdgeCalls(calls))
    /\ draws = Len(all_ids) * (Len(all_ids) - 1)

====
